---- MODULE Spec2Model ----
(***************************************************************************)
(* Model of openscad_docsgen/imagemanager.py: the directive parser of      *)
(* ImageRequest.__init__ and the golden-image lifecycle of ImageManager.   *)
(*                                                                         *)
(* Python strings are modelled as sequences of one-character strings, so   *)
(* that the substring tests ("Spin" in image_meta) and the regular         *)
(* expression searches of the source are computed character by character.  *)
(***************************************************************************)
EXTENDS Integers, Sequences, FiniteSets, TLC

(***************************************************************************)
(* Strings                                                                 *)
(***************************************************************************)

Digits == {"0","1","2","3","4","5","6","7","8","9"}

Letters == {"a","b","c","d","e","f","g","h","i","j","k","l","m","n","o","p","q","r","s","t","u","v","w","x","y","z","A","B","C","D","E","F","G","H","I","J","K","L","M","N","O","P","Q","R","S","T","U","V","W","X","Y","Z"}

\* Every character that occurs in the modelled strings.
Chars == Digits \cup Letters \cup {" ", "=", "[", "]", ",", ".", "$", "*", "(", ")", "+", "/", "-", "_", ";"}

\* The character classes of the regular expressions (lines 22-30).
DigitClass == Digits

FpsClass == Digits \cup {"."}

ExprClass == Letters \cup Digits \cup {"_", "(", ")", "+", "*", "/", "$", ".", "-"}

SchemeClass == Letters \cup Digits \cup {"_", " "}

NotRBracket == Chars \ {"]"}

Min(S) == CHOOSE x \in S : \A y \in S : x <= y

Max(S) == CHOOSE x \in S : \A y \in S : y <= x

\* pat occurs in s at index i (1-based).
IsPrefixAt(s, i, pat) ==
  /\ i >= 1
  /\ i + Len(pat) - 1 <= Len(s)
  /\ \A k \in 1..Len(pat) : s[i + k - 1] = pat[k]

\* Python: pat in s
Contains(s, pat) == \E i \in 1..(Len(s) - Len(pat) + 1) : IsPrefixAt(s, i, pat)

\* Python: s.startswith(pat)
StartsWith(s, pat) == IsPrefixAt(s, 1, pat)

\* The index after the longest run of characters of class cls that starts at i.
RECURSIVE SpanEnd(_, _, _)
SpanEnd(s, i, cls) ==
  IF i <= Len(s) /\ s[i] \in cls THEN SpanEnd(s, i + 1, cls) ELSE i

NoMatch == [found |-> FALSE, g1 |-> <<>>, g2 |-> <<>>]

\* One attempt of the pattern  KEY *= *(CLS+)  anchored at index i.  The
\* greedy " *" gives one blank back when CLS contains the blank and nothing
\* else follows (regex backtracking).
MatchKVAt(s, i, key, cls) ==
  IF ~IsPrefixAt(s, i, key) THEN NoMatch
  ELSE LET j == SpanEnd(s, i + Len(key), {" "})
       IN IF ~(j <= Len(s) /\ s[j] = "=") THEN NoMatch
          ELSE LET k == SpanEnd(s, j + 1, {" "})
                   e == SpanEnd(s, k, cls)
               IN IF e > k THEN [found |-> TRUE, g1 |-> SubSeq(s, k, e - 1), g2 |-> <<>>]
                  ELSE IF " " \in cls /\ k > j + 1
                       THEN [found |-> TRUE, g1 |-> <<" ">>, g2 |-> <<>>]
                       ELSE NoMatch

\* One attempt of the pattern  KEY *= *\[([^]]+)\]  anchored at index i.
MatchBracketAt(s, i, key) ==
  IF ~IsPrefixAt(s, i, key) THEN NoMatch
  ELSE LET j == SpanEnd(s, i + Len(key), {" "})
       IN IF ~(j <= Len(s) /\ s[j] = "=") THEN NoMatch
          ELSE LET k == SpanEnd(s, j + 1, {" "})
               IN IF ~(k <= Len(s) /\ s[k] = "[") THEN NoMatch
                  ELSE LET e == SpanEnd(s, k + 1, NotRBracket)
                       IN IF e > k + 1 /\ e <= Len(s) /\ s[e] = "]"
                          THEN [found |-> TRUE, g1 |-> SubSeq(s, k + 1, e - 1), g2 |-> <<>>]
                          ELSE NoMatch

\* One attempt of the pattern  Size *= *([0-9]+) *x *([0-9]+)  at index i.
MatchSizeAt(s, i) ==
  LET m == MatchKVAt(s, i, <<"S","i","z","e">>, DigitClass)
  IN IF ~m.found THEN NoMatch
     ELSE LET j  == SpanEnd(s, i + 4, {" "})
              k  == SpanEnd(s, j + 1, {" "})
              e  == SpanEnd(s, k, DigitClass)
              x  == SpanEnd(s, e, {" "})
          IN IF ~(x <= Len(s) /\ s[x] = "x") THEN NoMatch
             ELSE LET b  == SpanEnd(s, x + 1, {" "})
                      e2 == SpanEnd(s, b, DigitClass)
                  IN IF e2 > b
                     THEN [found |-> TRUE, g1 |-> m.g1, g2 |-> SubSeq(s, b, e2 - 1)]
                     ELSE NoMatch

\* re.search: the attempt at the leftmost index that matches.
SearchKV(s, key, cls) ==
  LET hits == {i \in 1..Len(s) : MatchKVAt(s, i, key, cls).found}
  IN IF hits = {} THEN NoMatch ELSE MatchKVAt(s, Min(hits), key, cls)

SearchBracket(s, key) ==
  LET hits == {i \in 1..Len(s) : MatchBracketAt(s, i, key).found}
  IN IF hits = {} THEN NoMatch ELSE MatchBracketAt(s, Min(hits), key)

SearchSize(s) ==
  LET hits == {i \in 1..Len(s) : MatchSizeAt(s, i).found}
  IN IF hits = {} THEN NoMatch ELSE MatchSizeAt(s, Min(hits))

(***************************************************************************)
(* Numbers: int(), float() and "{}".format() on the modelled strings.      *)
(* The modelled inputs spell floats positionally (sign, digits, one dot);  *)
(* exponents, digit grouping and inf/nan do not occur in them.             *)
(***************************************************************************)

DigitVal(c) ==
  CASE c = "0" -> 0 [] c = "1" -> 1 [] c = "2" -> 2 [] c = "3" -> 3 [] c = "4" -> 4
    [] c = "5" -> 5 [] c = "6" -> 6 [] c = "7" -> 7 [] c = "8" -> 8 [] c = "9" -> 9

\* Python: int(s) for a string of decimal digits.
RECURSIVE DecInt(_)
DecInt(s) ==
  IF s = <<>> THEN 0 ELSE 10 * DecInt(SubSeq(s, 1, Len(s) - 1)) + DigitVal(s[Len(s)])

RECURSIVE Pow10(_)
Pow10(n) == IF n = 0 THEN 1 ELSE 10 * Pow10(n - 1)

\* Python: s.strip() for blanks.
RECURSIVE Strip(_)
Strip(s) ==
  IF s = <<>> THEN s
  ELSE IF s[1] = " " THEN Strip(Tail(s))
  ELSE IF s[Len(s)] = " " THEN Strip(SubSeq(s, 1, Len(s) - 1))
  ELSE s

\* The index of the first occurrence of character c in s, 0 when absent.
FirstIndexOf(s, c) ==
  IF \E i \in 1..Len(s) : s[i] = c THEN Min({i \in 1..Len(s) : s[i] = c}) ELSE 0

\* Python: s.split(",")
RECURSIVE SplitComma(_)
SplitComma(s) ==
  IF FirstIndexOf(s, ",") = 0 THEN <<s>>
  ELSE <<SubSeq(s, 1, FirstIndexOf(s, ",") - 1)>>
         \o SplitComma(SubSeq(s, FirstIndexOf(s, ",") + 1, Len(s)))

Unsigned(s) == IF s # <<>> /\ s[1] \in {"+", "-"} THEN Tail(s) ELSE s

\* The unsigned, stripped text t spells a float.
IsUnsignedFloat(t) ==
  /\ \A i \in 1..Len(t) : t[i] \in Digits \cup {"."}
  /\ Cardinality({i \in 1..Len(t) : t[i] = "."}) <= 1
  /\ \E i \in 1..Len(t) : t[i] \in Digits

\* float(s) succeeds (otherwise it raises ValueError).
IsPyFloat(s) == IsUnsignedFloat(Unsigned(Strip(s)))

\* The digits before and after the dot of an unsigned float text.
IntPart(t) == IF FirstIndexOf(t, ".") = 0 THEN t ELSE SubSeq(t, 1, FirstIndexOf(t, ".") - 1)

FracPart(t) == IF FirstIndexOf(t, ".") = 0 THEN <<>> ELSE SubSeq(t, FirstIndexOf(t, ".") + 1, Len(t))

\* float(s) for an unsigned text, as the exact fraction mant / 10^scale.
PyFloat(s) ==
  [mant  |-> DecInt(IntPart(Unsigned(Strip(s))) \o FracPart(Unsigned(Strip(s)))),
   scale |-> Len(FracPart(Unsigned(Strip(s))))]

RECURSIVE DropLeadingZeros(_)
DropLeadingZeros(s) ==
  IF Len(s) > 1 /\ s[1] = "0" THEN DropLeadingZeros(Tail(s)) ELSE s

RECURSIVE DropTrailingZeros(_)
DropTrailingZeros(s) ==
  IF Len(s) > 1 /\ s[Len(s)] = "0" THEN DropTrailingZeros(SubSeq(s, 1, Len(s) - 1)) ELSE s

OrZero(s) == IF s = <<>> THEN <<"0">> ELSE s

\* "{}".format(float(s)): the shortest positional spelling, always with a
\* fractional part ("100" -> "100.0", "1.50" -> "1.5").
FormatFloat(s) ==
  (IF Strip(s)[1] = "-" THEN <<"-">> ELSE <<>>)
    \o DropLeadingZeros(OrZero(IntPart(Unsigned(Strip(s)))))
    \o <<".">>
    \o DropTrailingZeros(OrZero(FracPart(Unsigned(Strip(s)))))

\* A viewport component as __init__ holds it: an int default, a parsed
\* float or expression text; txt is what "{}".format() prints for it.
IntVal(txt) == [k |-> "int", txt |-> txt]

FloatVal(s) == [k |-> "float", txt |-> FormatFloat(s)]

StrVal(s) == [k |-> "str", txt |-> s]

(***************************************************************************)
(* ImageRequest.__init__: the directive parser                             *)
(***************************************************************************)

\* animation_frames = None (line 49)
NoFrames == -1

\* camera = None (lines 48, 120)
NoCamera == <<>>

\* RenderMode.preview / thrown_together / render (lines 46, 58-61)
RenderModeOf(image_meta) ==
  IF Contains(image_meta, <<"T","h","r","o","w","n","T","o","g","e","t","h","e","r">>) THEN "thrown_together"
  ELSE IF Contains(image_meta, <<"R","e","n","d","e","r">>) THEN "render"
  ELSE "preview"

\* The scale factor in quarters (1.0 = 4): lines 64-74.
ScaleQuarters(image_meta, sized) ==
  IF sized THEN 4
  ELSE IF Contains(image_meta, <<"S","m","a","l","l">>) THEN 3
  ELSE IF Contains(image_meta, <<"M","e","d">>) THEN 6
  ELSE IF Contains(image_meta, <<"B","i","g">>) THEN 8
  ELSE IF Contains(image_meta, <<"H","u","g","e">>) THEN 10
  ELSE 4

\* Line 75: [scale*x for x in self.imgsize]
Scaled(q, w, h) == <<(q * w) \div 4, (q * h) \div 4>>

\* Lines 47, 63-75 for the match m of _size_re.
ImgSizeFor(image_meta, m) ==
  IF m.found THEN Scaled(ScaleQuarters(image_meta, TRUE), DecInt(m.g1), DecInt(m.g2))
  ELSE Scaled(ScaleQuarters(image_meta, FALSE), 320, 240)

\* imgsize (lines 47, 63-75)
ImgSize(image_meta) == ImgSizeFor(image_meta, SearchSize(image_meta))

\* Lines 77-81: the viewport before any rule has run.
ViewportDefaults ==
  [vpt |-> <<IntVal(<<"0">>), IntVal(<<"0">>), IntVal(<<"0">>)>>,
   vpr |-> <<IntVal(<<"5","5">>), IntVal(<<"0">>), IntVal(<<"2","5">>)>>,
   vpd |-> IntVal(<<"4","4","4">>),
   vpf |-> [k |-> "float", txt |-> <<"2","2",".","5">>],
   dynamic_vp |-> FALSE,
   exc |-> "none"]

\* Lines 83-86: 3D / 2D.
DimRule(image_meta, v) ==
  IF Contains(image_meta, <<"3","D">>)
  THEN [v EXCEPT !.vpr = <<IntVal(<<"5","5">>), IntVal(<<"0">>), IntVal(<<"2","5">>)>>]
  ELSE IF Contains(image_meta, <<"2","D">>)
  THEN [v EXCEPT !.vpr = <<IntVal(<<"0">>), IntVal(<<"0">>), IntVal(<<"0">>)>>]
  ELSE v

\* Lines 87-98: the if/elif chain over the spin tags.
SpinRule(image_meta, v) ==
  IF Contains(image_meta, <<"F","l","a","t","S","p","i","n">>)
  THEN [v EXCEPT !.vpr = <<IntVal(<<"5","5">>), IntVal(<<"0">>), StrVal(<<"3","6","0","*","$","t">>)>>,
                 !.dynamic_vp = TRUE]
  ELSE IF Contains(image_meta, <<"S","p","i","n">>)
  THEN [v EXCEPT !.vpr = <<StrVal(<<"9","0","-","4","5","*","c","o","s","(","3","6","0","*","$","t",")">>), IntVal(<<"0">>), StrVal(<<"3","6","0","*","$","t">>)>>,
                 !.dynamic_vp = TRUE]
  ELSE IF Contains(image_meta, <<"X","S","p","i","n">>)
  THEN [v EXCEPT !.vpr = <<StrVal(<<"3","6","0","*","$","t">>), IntVal(<<"0">>), IntVal(<<"2","5">>)>>,
                 !.dynamic_vp = TRUE]
  ELSE IF Contains(image_meta, <<"Y","S","p","i","n">>)
  THEN [v EXCEPT !.vpr = <<IntVal(<<"5","5">>), StrVal(<<"3","6","0","*","$","t">>), IntVal(<<"2","5">>)>>,
                 !.dynamic_vp = TRUE]
  ELSE v

\* Lines 99-100: Anim.
AnimRule(image_meta, v) ==
  IF Contains(image_meta, <<"A","n","i","m">>) THEN [v EXCEPT !.dynamic_vp = TRUE] ELSE v

\* Lines 168-173: one stripped component, as a float or as its text.
VpComponent(comp) == IF IsPyFloat(comp) THEN FloatVal(comp) ELSE StrVal(comp)

\* Lines 165-175 for the components comps of the line.
ParseVpComps(comps, old_trio, dynamic) ==
  IF Len(comps) = 3
  THEN [trio    |-> [i \in 1..3 |-> VpComponent(Strip(comps[i]))],
        dynamic |-> dynamic \/ \E i \in 1..3 : ~IsPyFloat(Strip(comps[i]))]
  ELSE [trio |-> old_trio, dynamic |-> dynamic]

\* _parse_vp_line (lines 163-175)
ParseVpLine(line, old_trio, dynamic) == ParseVpComps(SplitComma(line), old_trio, dynamic)

\* Lines 104-105: vpr, dyn_vp = ...; dynamic_vp = dynamic_vp or dyn_vp
SetVpr(v, r) == [v EXCEPT !.vpr = r.trio, !.dynamic_vp = v.dynamic_vp \/ r.dynamic]

\* VprMatched with a fresh flag handed to _parse_vp_line and its result
\* assigned to dynamic_vp instead of or-ed into it.
VprMatchedReset(match, v) ==
  IF match.found
  THEN [v EXCEPT !.vpr = ParseVpLine(match.g1, v.vpr, FALSE).trio,
                 !.dynamic_vp = ParseVpLine(match.g1, v.vpr, FALSE).dynamic]
  ELSE v

\* Lines 103-105 for the match of _vpr_re.
VprMatched(match, v) ==
  IF match.found THEN SetVpr(v, ParseVpLine(match.g1, v.vpr, v.dynamic_vp)) ELSE v

\* Lines 102-105: VPR=[..]
VprRule(image_meta, v) == VprMatched(SearchBracket(image_meta, <<"V","P","R">>), v)

\* Lines 108-109: vpt, dyn_vp = ...; dynamic_vp = dynamic_vp or dyn_vp
SetVpt(v, r) == [v EXCEPT !.vpt = r.trio, !.dynamic_vp = v.dynamic_vp \/ r.dynamic]

\* Lines 107-109 for the match of _vpt_re.
VptMatched(match, v) ==
  IF match.found THEN SetVpt(v, ParseVpLine(match.g1, v.vpt, v.dynamic_vp)) ELSE v

\* Lines 106-109: VPT=[..]
VptRule(image_meta, v) == VptMatched(SearchBracket(image_meta, <<"V","P","T">>), v)

\* Lines 111-113 for the match of _vpd_re: float() raises ValueError on
\* anything else than a number.
VpdMatched(match, v) ==
  IF ~match.found THEN v
  ELSE IF ~IsPyFloat(match.g1) THEN [v EXCEPT !.exc = "ValueError"]
  ELSE [v EXCEPT !.vpd = FloatVal(match.g1), !.dynamic_vp = TRUE]

\* Lines 110-113: VPD=expr
VpdRule(image_meta, v) == VpdMatched(SearchKV(image_meta, <<"V","P","D">>, ExprClass), v)

\* Lines 115-117 for the match of _vpf_re.
VpfMatched(match, v) ==
  IF ~match.found THEN v
  ELSE IF ~IsPyFloat(match.g1) THEN [v EXCEPT !.exc = "ValueError"]
  ELSE [v EXCEPT !.vpf = FloatVal(match.g1), !.dynamic_vp = TRUE]

\* Lines 114-117: VPF=expr; not reached when line 112 has raised.
VpfRule(image_meta, v) ==
  IF v.exc # "none" THEN v ELSE VpfMatched(SearchKV(image_meta, <<"V","P","F">>, ExprClass), v)

\* Lines 77-117 in order.
ViewportRules(image_meta) ==
  VpfRule(image_meta,
    VpdRule(image_meta,
      VptRule(image_meta,
        VprRule(image_meta,
          AnimRule(image_meta,
            SpinRule(image_meta,
              DimRule(image_meta, ViewportDefaults)))))))

\* Lines 38-41: the "--" prefix is stripped from every script line.
StripForceUnder(script_lines) ==
  [i \in 1..Len(script_lines) |->
     IF StartsWith(script_lines[i], <<"-","-">>)
     THEN SubSeq(script_lines[i], 3, Len(script_lines[i]))
     ELSE script_lines[i]]

\* Lines 121-126: the four declarations of a dynamic viewport.
ViewportDeclarations(v) ==
  << <<"$","v","p","t"," ","="," ","[">> \o v.vpt[1].txt \o <<","," ">> \o v.vpt[2].txt \o <<","," ">> \o v.vpt[3].txt \o <<"]",";">>,
     <<"$","v","p","r"," ","="," ","[">> \o v.vpr[1].txt \o <<","," ">> \o v.vpr[2].txt \o <<","," ">> \o v.vpr[3].txt \o <<"]",";">>,
     <<"$","v","p","d"," ","="," ">> \o v.vpd.txt \o <<";">>,
     <<"$","v","p","f"," ","="," ">> \o v.vpf.txt \o <<";">> >>

\* ScriptLinesOf with the declarations put after the script instead of
\* inserted at index 0.
ScriptLinesOfAppended(script_lines, v) ==
  IF v.dynamic_vp THEN StripForceUnder(script_lines) \o ViewportDeclarations(v)
  ELSE StripForceUnder(script_lines)

\* Lines 119-126: script_lines.
ScriptLinesOf(script_lines, v) ==
  IF v.dynamic_vp THEN ViewportDeclarations(v) \o StripForceUnder(script_lines)
  ELSE StripForceUnder(script_lines)

\* Lines 119-128: camera.
CameraOf(v) ==
  IF v.dynamic_vp THEN NoCamera
  ELSE <<v.vpt[1], v.vpt[2], v.vpt[3], v.vpr[1], v.vpr[2], v.vpr[3], v.vpd>>

\* FpsToMs with round() in place of int(): to the nearest integer, a tie to
\* the even one.
FpsToMsRounded(f) ==
  IF 2 * ((1000 * Pow10(f.scale)) % f.mant) > f.mant
       \/ (2 * ((1000 * Pow10(f.scale)) % f.mant) = f.mant
             /\ ((1000 * Pow10(f.scale)) \div f.mant) % 2 = 1)
  THEN ((1000 * Pow10(f.scale)) \div f.mant) + 1
  ELSE (1000 * Pow10(f.scale)) \div f.mant

\* Line 132: int(1000/float(text)); int() truncates the quotient.
FpsToMs(f) == (1000 * Pow10(f.scale)) \div f.mant

\* Lines 50, 130-135 for the matches of _fps_re and _framems_re, with the
\* exception float() or the division raises.
FrameMsFor(fps, fms) ==
  IF fps.found /\ ~IsPyFloat(fps.g1) THEN [exc |-> "ValueError", ms |-> 0]
  ELSE IF fps.found /\ PyFloat(fps.g1).mant = 0 THEN [exc |-> "ZeroDivisionError", ms |-> 0]
  ELSE IF fms.found THEN [exc |-> "none", ms |-> DecInt(fms.g1)]
  ELSE IF fps.found THEN [exc |-> "none", ms |-> FpsToMs(PyFloat(fps.g1))]
  ELSE [exc |-> "none", ms |-> 250]

\* frame_ms (lines 50, 130-135)
FrameMs(image_meta) ==
  FrameMsFor(SearchKV(image_meta, <<"F","P","S">>, FpsClass), SearchKV(image_meta, <<"F","r","a","m","e","M","S">>, DigitClass))

\* Lines 137-141 for the match of _frames_re.
AnimationFramesFor(image_meta, match) ==
  IF match.found THEN DecInt(match.g1)
  ELSE IF Contains(image_meta, <<"S","p","i","n">>) \/ Contains(image_meta, <<"A","n","i","m">>) THEN 36
  ELSE NoFrames

\* animation_frames (lines 137-141)
AnimationFrames(image_meta) ==
  AnimationFramesFor(image_meta, SearchKV(image_meta, <<"F","r","a","m","e","s">>, DigitClass))

\* Lines 143-145 for the match of _color_scheme_re.
ColorSchemeFor(match) == IF match.found THEN match.g1 ELSE <<"C","o","r","n","f","i","e","l","d">>

\* color_scheme (lines 56, 143-145)
ColorSchemeOf(image_meta) == ColorSchemeFor(SearchKV(image_meta, <<"C","o","l","o","r","S","c","h","e","m","e">>, SchemeClass))

\* Lines 147-150: script_under for a script that has lines;
\* longest > (880 - width) / 9 is compared without the division.
ScriptUnder(image_meta, lines, imgsize) ==
  \/ 9 * Max({Len(lines[i]) : i \in 1..Len(lines)}) > 880 - imgsize[1]
  \/ Contains(image_meta, <<"S","c","r","i","p","t","U","n","d","e","r">>)

\* The exception __init__ raises: line 112 or 116, else line 132, else the
\* max() of line 147 over no lines.
RaisedBy(v, fm, lines) ==
  IF v.exc # "none" THEN v.exc
  ELSE IF fm.exc # "none" THEN fm.exc
  ELSE IF lines = <<>> THEN "ValueError"
  ELSE "none"

\* Lines 32-57, 119-161 for the viewport v the rules of lines 77-117 left.
\* exc names the exception the constructor raises ("none": the object is
\* built).  cmdline, return_code, stdout, stderr and echos are copied
\* through unread and left out, as are src_file, src_line, verbose and
\* enabled_features.
RequestFields(image_file, image_meta, starting_cb, completion_cb, v, fm, lines, size) ==
  [exc              |-> RaisedBy(v, fm, lines),
   image_file       |-> image_file,
   image_meta       |-> image_meta,
   script_lines     |-> lines,
   starting_cb      |-> starting_cb,
   completion_cb    |-> completion_cb,
   render_mode      |-> RenderModeOf(image_meta),
   imgsize          |-> size,
   dynamic_vp       |-> v.dynamic_vp,
   camera           |-> CameraOf(v),
   animation_frames |-> AnimationFrames(image_meta),
   frame_ms         |-> fm.ms,
   show_edges       |-> Contains(image_meta, <<"E","d","g","e","s">>),
   show_axes        |-> ~Contains(image_meta, <<"N","o","A","x","e","s">>),
   show_scales      |-> ~Contains(image_meta, <<"N","o","S","c","a","l","e","s">>),
   orthographic     |-> ~Contains(image_meta, <<"P","e","r","s","p","e","c","t","i","v","e">>),
   color_scheme     |-> ColorSchemeOf(image_meta),
   script_under     |-> IF lines = <<>> THEN FALSE ELSE ScriptUnder(image_meta, lines, size),
   complete         |-> FALSE,
   status           |-> "INCOMPLETE",
   success          |-> FALSE,
   warnings         |-> <<>>,
   errors           |-> <<>>]

\* __init__ from line 119 on, for the viewport v.
BuildRequest(image_file, script_lines, image_meta, starting_cb, completion_cb, v) ==
  RequestFields(image_file, image_meta, starting_cb, completion_cb, v,
                FrameMs(image_meta), ScriptLinesOf(script_lines, v), ImgSize(image_meta))

\* ImageRequest.__init__ (lines 32-161)
ImageRequest(image_file, script_lines, image_meta, starting_cb, completion_cb) ==
  BuildRequest(image_file, script_lines, image_meta, starting_cb, completion_cb,
               ViewportRules(image_meta))

(***************************************************************************)
(* Bounded inputs                                                          *)
(***************************************************************************)

\* The longest directive, in tags.
MaxTags == 2

\* The tags a directive is written from (spec section 6), with one tag the
\* grammar does not know.
Vocabulary ==
  { <<"F","l","a","t","S","p","i","n">>, <<"S","p","i","n">>, <<"X","S","p","i","n">>, <<"Y","S","p","i","n">>, <<"A","n","i","m">>, <<"2","D">>,
    <<"V","P","R","=","[","1",",","2",",","3","]">>, <<"V","P","R","=","[","$","t",",","0",",","0","]">>, <<"V","P","T","=","[","1",",","2",",","3","]">>,
    <<"V","P","D","=","1","0","0">>, <<"V","P","D","=","2","*","$","t">>, <<"V","P","F","=","2","0">>,
    <<"F","P","S","=","6">>, <<"F","P","S","=","4">>, <<"F","P","S","=","0">>, <<"F","r","a","m","e","M","S","=","4","0">>, <<"F","r","a","m","e","M","S","=","0">>, <<"F","r","a","m","e","s","=","1","0">>,
    <<"S","i","z","e","=","8","0","0","x","6","0","0">>, <<"B","i","g">>, <<"F","o","o">>, <<"N","O","R","E","N","D","E","R">> }

Directives == UNION {[1..n -> Vocabulary] : n \in 0..MaxTags}

\* The metadata string of a directive: its tags separated by one blank.
RECURSIVE MetaOf(_)
MetaOf(tags) ==
  IF tags = <<>> THEN <<>>
  ELSE IF Len(tags) = 1 THEN tags[1]
  ELSE tags[1] \o <<" ">> \o MetaOf(Tail(tags))

\* Script bodies: none, one line, and a force-under line with a line that
\* sets a viewport variable itself.
ScriptBodies ==
  { <<>>,
    << <<"c","u","b","e","(","1","0",")",";">> >>,
    << <<"-","-","c","u","b","e","(","1","0",")",";">>, <<"$","v","p","r","=","[","0",",","0",",","0","]",";">> >> }

(***************************************************************************)
(* Paths (os.path) and the files process_request touches                   *)
(***************************************************************************)

\* The index of the last occurrence of character c in s, 0 when absent.
LastIndexOf(s, c) ==
  LET hits == {i \in 1..Len(s) : s[i] = c}
  IN IF hits = {} THEN 0 ELSE Max(hits)

\* os.path.dirname (line 224, 282) for paths without trailing slashes.
DirName(p) ==
  IF LastIndexOf(p, "/") = 0 THEN <<>> ELSE SubSeq(p, 1, LastIndexOf(p, "/") - 1)

\* os.path.basename (line 225)
BaseName(p) == SubSeq(p, LastIndexOf(p, "/") + 1, Len(p))

\* os.path.splitext (line 226): the extension starts at the last dot,
\* unless only dots precede it.
SplitExt(b) ==
  LET d == LastIndexOf(b, ".")
  IN IF d = 0 \/ \A i \in 1..(d - 1) : b[i] = "."
     THEN [base |-> b, ext |-> <<>>]
     ELSE [base |-> SubSeq(b, 1, d - 1), ext |-> SubSeq(b, d, Len(b))]

\* base_name.replace(".", "_") (line 227)
ReplaceDots(s) == [i \in 1..Len(s) |-> IF s[i] = "." THEN "_" ELSE s[i]]

\* script_file (line 227)
ScriptFile(image_file) == <<"t","m","p","_">> \o ReplaceDots(BaseName(image_file)) \o <<".","s","c","a","d">>

\* new_img_file (line 229)
NewImgFile(image_file) ==
  <<"t","m","p","_">> \o SplitExt(BaseName(image_file)).base \o SplitExt(BaseName(image_file)).ext

\* Python: s.endswith(suffix)
EndsWith(s, suffix) == IsPrefixAt(s, Len(s) - Len(suffix) + 1, suffix)

\* The golden images requests are made for.
Targets == { <<"i","m","a","g","e","s","/","a",".","p","n","g">>, <<"i","m","a","g","e","s","/","b",".","g","i","f">> }

\* Image files: the pixel array imread() decodes, flattened, with its shape.
Image(shape, px) == [shape |-> shape, px |-> px]

Absent == Image(<<>>, <<>>)

Images == { Image(<<1, 1>>, <<0>>), Image(<<1, 1>>, <<64>>), Image(<<1, 1>>, <<200>>) }

ImagePaths == Targets \cup {NewImgFile(t) : t \in Targets}

Abs(x) == IF x < 0 THEN -x ELSE x

\* image_compare's default max_diff (line 297)
DefaultMaxDiff == 64

\* ImageCompare without the shape test of lines 306-307.
ImageCompareNoShape(file1, file2, a, b, max_diff) ==
  IF EndsWith(file1, <<".","g","i","f">>) /\ EndsWith(file2, <<".","g","i","f">>)
  THEN a = b
  ELSE Max({Abs(a.px[i] - b.px[i]) : i \in 1..Min({Len(a.px), Len(b.px)})}) <= max_diff

\* ImageCompare with < in place of <= on line 311.
ImageCompareStrict(file1, file2, a, b, max_diff) ==
  IF EndsWith(file1, <<".","g","i","f">>) /\ EndsWith(file2, <<".","g","i","f">>)
  THEN a = b
  ELSE IF a.shape # b.shape THEN FALSE
  ELSE Max({Abs(a.px[i] - b.px[i]) : i \in 1..Len(a.px)}) < max_diff

\* image_compare (lines 296-311) on the contents a and b of file1, file2.
ImageCompare(file1, file2, a, b, max_diff) ==
  IF EndsWith(file1, <<".","g","i","f">>) /\ EndsWith(file2, <<".","g","i","f">>)
  THEN a = b
  ELSE IF a.shape # b.shape THEN FALSE
  ELSE Max({Abs(a.px[i] - b.px[i]) : i \in 1..Len(a.px)}) <= max_diff

(***************************************************************************)
(* The renderer (openscad_runner.OpenScadRunner), an external collaborator *)
(***************************************************************************)

BenignWarning == <<"W","A","R","N","I","N","G",":"," ","V","i","e","w","a","l","l"," ","a","n","d"," ","a","u","t","o","c","e","n","t","e","r"," ","d","i","s","a","b","l","e","d">>

RealWarning == <<"W","A","R","N","I","N","G",":"," ","I","g","n","o","r","i","n","g"," ","u","n","k","n","o","w","n"," ","v","a","r","i","a","b","l","e">>

ErrorLine == <<"E","R","R","O","R",":"," ","P","a","r","s","e","r"," ","e","r","r","o","r">>

\* What one run of the renderer can report and write.  A validate-only run
\* writes no image; a run that reports success in a rendering mode has
\* written its output image; a failing run may or may not have.
RendererResults(dry_run) ==
  { r \in [success  : BOOLEAN,
           warnings : {<<>>, <<BenignWarning>>, <<RealWarning>>, <<BenignWarning, RealWarning>>},
           errors   : {<<>>, <<ErrorLine>>},
           out      : Images \cup {Absent}] :
      /\ dry_run => r.out = Absent
      /\ (~dry_run /\ r.success) => r.out # Absent }

NoOsc == [present |-> FALSE]

\* NoVp with the flag assigned from each line in turn, so that the last
\* line decides.
NoVpLastLine(lines) == lines = <<>> \/ ~Contains(lines[Len(lines)], <<"$","v","p">>)

\* Line 236-239: no line of the script references a viewport variable.
NoVp(lines) == ~\E i \in 1..Len(lines) : Contains(lines[i], <<"$","v","p">>)

\* Lines 241-266: the arguments OpenScadRunner is constructed with.
RunnerArgs(req, dry_run) ==
  [script_file      |-> ScriptFile(req.image_file),
   new_img_file     |-> NewImgFile(req.image_file),
   animate          |-> IF dry_run THEN NoFrames ELSE req.animation_frames,
   animate_duration |-> req.frame_ms,
   imgsize          |-> req.imgsize,
   antialias        |-> 2,
   orthographic     |-> TRUE,
   camera           |-> req.camera,
   auto_center      |-> NoVp(req.script_lines),
   view_all         |-> NoVp(req.script_lines),
   color_scheme     |-> req.color_scheme,
   show_edges       |-> req.show_edges,
   show_axes        |-> req.show_axes,
   show_scales      |-> req.show_scales,
   render_mode      |-> IF dry_run THEN "test_only" ELSE req.render_mode,
   hard_warnings    |-> NoVp(req.script_lines)]

\* Line 268: the benign warning is dropped from osc.warnings.
FilterWarnings(warnings) ==
  SelectSeq(warnings, LAMBDA line : ~Contains(line, <<"V","i","e","w","a","l","l"," ","a","n","d"," ","a","u","t","o","c","e","n","t","e","r"," ","d","i","s","a","b","l","e","d">>))

\* osc after osc.run() and the filter of line 268; reported keeps the
\* warnings as the renderer gave them, out the image it wrote.
OscOf(req, dry_run, res) ==
  [present  |-> TRUE,
   args     |-> RunnerArgs(req, dry_run),
   success  |-> res.success,
   reported |-> res.warnings,
   warnings |-> FilterWarnings(res.warnings),
   errors   |-> res.errors,
   out      |-> res.out]

\* Line 273: the FAIL condition.
RenderFailed(o) == ~o.success \/ o.warnings # <<>> \/ o.errors # <<>>

\* Outcome with the dry-run test of line 278 taken before the FAIL test of
\* line 273.
OutcomeDryRunFirst(o, dry_run, targ_exists, same) ==
  IF dry_run THEN "SKIP"
  ELSE IF RenderFailed(o) THEN "FAIL"
  ELSE IF ~targ_exists THEN "NEW"
  ELSE IF same THEN "SKIP"
  ELSE "REPLACE"

\* Lines 273-294: the status process_request completes the request with.
Outcome(o, dry_run, targ_exists, same) ==
  IF RenderFailed(o) THEN "FAIL"
  ELSE IF dry_run THEN "SKIP"
  ELSE IF ~targ_exists THEN "NEW"
  ELSE IF same THEN "SKIP"
  ELSE "REPLACE"

\* ImageRequest.completed (lines 181-194), without the callback.
Completed(req, status, o) ==
  IF o.present
  THEN [req EXCEPT !.complete = TRUE, !.status = status, !.success = o.success,
                   !.warnings = o.warnings, !.errors = o.errors]
  ELSE [req EXCEPT !.complete = TRUE, !.status = status, !.success = TRUE]
(***************************************************************************)
(* State                                                                   *)
(***************************************************************************)

VARIABLES
  directive,     \* the tags the metadata string was written from
  image_meta,    \* ImageRequest.__init__'s image_meta
  script_lines,  \* ImageRequest.__init__'s script_lines argument
  stage,         \* the next viewport rule of __init__ to run
  vp,            \* __init__'s locals vpt, vpr, vpd, vpf, dynamic_vp
  built,         \* the constructed ImageRequest
  reqs,          \* every ImageRequest object new_request has returned, by identity
  requests,      \* ImageManager.requests: the identities queued
  test_only,     \* ImageManager.test_only
  pc,            \* where process_requests / process_request stands
  loopList,      \* the list object the for loop of line 217 iterates, once
                 \* self.requests has been rebound to another list
  loopIdx,       \* the for loop's position
  aliased,       \* the for loop iterates the list self.requests names
  osc,           \* process_request's osc
  files,         \* image files by path: golden images and temporary outputs
  script_files,  \* the temporary script files that exist
  dirs,          \* the directories that exist
  completions,   \* per request: how often completed() has run
  passQueue,     \* self.requests when the running process_requests was called
  passDone,      \* the requests the running pass has completed, in order
  passResult,    \* how the last process_requests call ended
  faults,        \* exceptions raised so far
  call,          \* the new_request call just made by the user: its metadata
                 \* and whether it raised
  scope,         \* which inputs the manager's user and the renderer draw from
  cmp            \* one image_compare call: its arguments and what it returned

parseVars == <<directive, image_meta, script_lines, stage, vp, built>>

lifeVars == <<reqs, requests, test_only, pc, loopList, loopIdx, aliased, osc, files,
              script_files, dirs, completions, passQueue, passDone, passResult, faults,
              call, scope, cmp>>

vars == <<directive, image_meta, script_lines, stage, vp, built,
          reqs, requests, test_only, pc, loopList, loopIdx, aliased, osc, files,
          script_files, dirs, completions, passQueue, passDone, passResult, faults,
          call, scope, cmp>>

NotBuilt == [exc |-> "unbuilt"]

\* No new_request call was just made.
NoCall == [made |-> FALSE]

\* Requests created in one behaviour.
MaxReq == 2

\* Exceptions raised in one behaviour.
MaxFaults == 1

\* The directives and scripts requests are made with.
LifeDirectives == { <<>>, << <<"N","O","R","E","N","D","E","R">> >> }

LifeScripts == { << <<"c","u","b","e","(","1","0",")",";">> >> }

\* Whether a request is made with callbacks; a request without them behaves
\* as one whose callbacks do nothing.
LifeCallbacks == {TRUE}

\* Requests created and exceptions raised in one behaviour of the scope
\* "retries": more calls, made with one target, no callbacks and a renderer
\* that always reports a clean run.
RetryReq == 3

RetryFaults == 2

ReqLimit == IF scope = "retries" THEN RetryReq ELSE MaxReq

FaultLimit == IF scope = "retries" THEN RetryFaults ELSE MaxFaults

RequestTargets == IF scope = "retries" THEN { <<"i","m","a","g","e","s","/","a",".","p","n","g">> } ELSE Targets

RequestCallbacks == IF scope = "retries" THEN {FALSE} ELSE LifeCallbacks

\* The results the renderer gives in this scope.
RendererReports(dry_run) ==
  IF scope = "retries"
  THEN { r \in RendererResults(dry_run) :
           /\ r.success
           /\ r.warnings = <<>>
           /\ r.errors = <<>>
           /\ r.out \in {Absent, Image(<<1, 1>>, <<0>>)} }
  ELSE RendererResults(dry_run)

InitParseVars ==
  /\ directive = <<>>
  /\ image_meta = <<>>
  /\ script_lines = <<>>
  /\ stage = "off"
  /\ vp = ViewportDefaults
  /\ built = NotBuilt

\* ImageManager.__init__ (lines 201-203), with no file on disk.
InitManager ==
  /\ reqs = <<>>
  /\ requests = <<>>
  /\ test_only = FALSE
  /\ pc = "idle"
  /\ loopList = <<>>
  /\ loopIdx = 0
  /\ aliased = FALSE
  /\ osc = NoOsc
  /\ files = [p \in ImagePaths |-> Absent]
  /\ script_files = {}
  /\ dirs = {}
  /\ completions = <<>>
  /\ passQueue = <<>>
  /\ passDone = <<>>
  /\ passResult = "none"
  /\ faults = 0
  /\ call = NoCall

\* No image_compare call is under way.
NoCompare == [state |-> "off"]

InitLifeVars ==
  /\ InitManager
  /\ scope = "lifecycle"
  /\ cmp = NoCompare

(***************************************************************************)
(* ImageManager                                                            *)
(***************************************************************************)

\* Enqueue with the new request put at the head of the list instead of
\* appended.
EnqueueAtHead(rs, q, meta, req) ==
  IF Contains(meta, <<"N","O","R","E","N","D","E","R">>) \/ req.exc # "none"
  THEN [raised |-> TRUE, reqs |-> rs, requests |-> q]
  ELSE [raised |-> FALSE, reqs |-> Append(rs, req), requests |-> <<Len(rs) + 1>> \o q]

\* Enqueue with the NORENDER test of line 209 made after the append of
\* line 212.
EnqueueLateCheck(rs, q, meta, req) ==
  IF req.exc # "none"
  THEN [raised |-> TRUE, reqs |-> rs, requests |-> q]
  ELSE [raised |-> Contains(meta, <<"N","O","R","E","N","D","E","R">>),
        reqs |-> Append(rs, req), requests |-> Append(q, Len(rs) + 1)]

\* Lines 209-213 for the object req the constructor gave (or failed to).
Enqueue(rs, q, meta, req) ==
  IF Contains(meta, <<"N","O","R","E","N","D","E","R">>) \/ req.exc # "none"
  THEN [raised |-> TRUE, reqs |-> rs, requests |-> q]
  ELSE [raised |-> FALSE, reqs |-> Append(rs, req), requests |-> Append(q, Len(rs) + 1)]

\* new_request (lines 208-213) on the heap rs and the list q that
\* self.requests names: raises (no change) on NORENDER or when the
\* constructor raises, else appends the new object.
NewRequestOn(rs, q, image_file, lines, meta, starting_cb, completion_cb) ==
  Enqueue(rs, q, meta, ImageRequest(image_file, lines, meta, starting_cb, completion_cb))

\* The list the for loop of line 217 iterates.
LoopSeq == IF aliased THEN requests ELSE loopList

\* The request process_request is working on.
Cur == LoopSeq[loopIdx]

\* What a starting or completion callback may do to the manager: nothing,
\* purge_requests(), or a new_request() that succeeds.  Each outcome is the
\* heap, the list self.requests names and the loop's view of it afterwards.
CallbackOutcomes(has_cb, rs, q, ll, al) ==
  LET same  == [reqs |-> rs, requests |-> q, loopList |-> ll, aliased |-> al]
      purge == [reqs |-> rs, requests |-> <<>>,
                loopList |-> IF al THEN q ELSE ll, aliased |-> FALSE]
      news  == { [reqs |-> n.reqs, requests |-> n.requests, loopList |-> ll, aliased |-> al] :
                 n \in { NewRequestOn(rs, q, t, s, MetaOf(d), scb, ccb) :
                         t \in RequestTargets, s \in LifeScripts, d \in LifeDirectives,
                         scb \in RequestCallbacks, ccb \in RequestCallbacks } }
  IN IF ~has_cb THEN {same}
     ELSE {same, purge} \cup (IF Len(rs) < ReqLimit THEN news ELSE {})

\* new_request called by the manager's user (lines 208-213).
NewRequest ==
  /\ pc = "idle"
  /\ Len(reqs) < ReqLimit
  /\ \E t \in RequestTargets, s \in LifeScripts, d \in LifeDirectives,
        scb \in RequestCallbacks, ccb \in RequestCallbacks :
       \E n \in {NewRequestOn(reqs, requests, t, s, MetaOf(d), scb, ccb)} :
          /\ reqs' = n.reqs
          /\ requests' = n.requests
          /\ completions' = [i \in 1..Len(n.reqs) |-> IF i <= Len(reqs) THEN completions[i] ELSE 0]
          /\ call' = [made |-> TRUE, image_meta |-> MetaOf(d), raised |-> n.raised]
  /\ UNCHANGED <<test_only, pc, loopList, loopIdx, aliased, osc, files, script_files,
                 dirs, passQueue, passDone, passResult, faults>>
  /\ UNCHANGED <<parseVars, scope, cmp>>

\* purge_requests called by the manager's user (lines 205-206).
PurgeRequests ==
  /\ pc = "idle"
  /\ requests # <<>>
  /\ requests' = <<>>
  /\ UNCHANGED <<reqs, test_only, pc, loopList, loopIdx, aliased, osc, files, script_files,
                 dirs, completions, passQueue, passDone, passResult, faults>>
  /\ call' = NoCall
  /\ UNCHANGED <<parseVars, scope, cmp>>

\* process_requests is called (lines 215-217).
ProcessRequests ==
  /\ pc = "idle"
  /\ \E t \in BOOLEAN : test_only' = t
  /\ pc' = "loop"
  /\ aliased' = TRUE
  /\ loopList' = <<>>
  /\ loopIdx' = 1
  /\ passQueue' = requests
  /\ passDone' = <<>>
  /\ passResult' = "running"
  /\ UNCHANGED <<reqs, requests, osc, files, script_files, dirs, completions, faults>>
  /\ call' = NoCall
  /\ UNCHANGED <<parseVars, scope, cmp>>

\* The loop takes its next request and process_request fires starting()
\* (lines 217-218, 222, 177-179).
Starting ==
  /\ pc = "loop"
  /\ loopIdx <= Len(LoopSeq)
  /\ \E o \in CallbackOutcomes(reqs[Cur].starting_cb, reqs, requests, loopList, aliased) :
       /\ reqs' = o.reqs
       /\ requests' = o.requests
       /\ loopList' = o.loopList
       /\ aliased' = o.aliased
       /\ completions' = [i \in 1..Len(o.reqs) |-> IF i <= Len(reqs) THEN completions[i] ELSE 0]
  /\ pc' = "write"
  /\ UNCHANGED <<test_only, loopIdx, osc, files, script_files, dirs, passQueue,
                 passDone, passResult, faults>>
  /\ call' = NoCall
  /\ UNCHANGED <<parseVars, scope, cmp>>

\* Lines 224-233: the script is written to its temporary file.
WriteScript ==
  /\ pc = "write"
  /\ script_files' = script_files \cup {ScriptFile(reqs[Cur].image_file)}
  /\ pc' = "render"
  /\ UNCHANGED <<reqs, requests, test_only, loopList, loopIdx, aliased, osc, files, dirs,
                 completions, passQueue, passDone, passResult, faults>>
  /\ call' = NoCall
  /\ UNCHANGED <<parseVars, scope, cmp>>

\* Lines 235-271: the renderer runs and reports; the script file is removed.
RunRenderer ==
  /\ pc = "render"
  /\ \E res \in RendererReports(test_only) :
       /\ osc' = OscOf(reqs[Cur], test_only, res)
       /\ files' = IF res.out # Absent
                   THEN [files EXCEPT ![NewImgFile(reqs[Cur].image_file)] = res.out]
                   ELSE files
  /\ script_files' = script_files \ {ScriptFile(reqs[Cur].image_file)}
  /\ pc' = "classify"
  /\ UNCHANGED <<reqs, requests, test_only, loopList, loopIdx, aliased, dirs,
                 completions, passQueue, passDone, passResult, faults>>
  /\ call' = NoCall
  /\ UNCHANGED <<parseVars, scope, cmp>>

\* An exception leaves process_requests: the loop is abandoned and line 219
\* is not reached, so self.requests keeps what it holds.
Abort ==
  /\ pc' = "idle"
  /\ loopList' = <<>>
  /\ loopIdx' = 0
  /\ aliased' = FALSE
  /\ osc' = NoOsc
  /\ passResult' = "raised"
  /\ faults' = faults + 1

\* Line 231: open() raises.
WriteScriptFails ==
  /\ pc = "write"
  /\ faults < FaultLimit
  /\ Abort
  /\ UNCHANGED <<reqs, requests, test_only, files, script_files, dirs, completions,
                 passQueue, passDone>>
  /\ call' = NoCall
  /\ UNCHANGED <<parseVars, scope, cmp>>

\* RendererRaises without the finally clause of lines 270-271: the script
\* file stays when the renderer raises.
RendererRaisesKeepsScript ==
  /\ pc = "render"
  /\ faults < FaultLimit
  /\ Abort
  /\ UNCHANGED <<reqs, requests, test_only, files, script_files, dirs, completions,
                 passQueue, passDone>>
  /\ call' = NoCall
  /\ UNCHANGED <<parseVars, scope, cmp>>

\* Lines 247-271: the renderer cannot be run and raises; the finally clause
\* removes the script file.
RendererRaises ==
  /\ pc = "render"
  /\ faults < FaultLimit
  /\ script_files' = script_files \ {ScriptFile(reqs[Cur].image_file)}
  /\ Abort
  /\ UNCHANGED <<reqs, requests, test_only, files, dirs, completions, passQueue, passDone>>
  /\ call' = NoCall
  /\ UNCHANGED <<parseVars, scope, cmp>>

\* FilesAfter with the rename of line 293 left out: a REPLACE only deletes
\* the golden image.
FilesAfterNoRename(fs, status, dry_run, targ, new) ==
  IF dry_run \/ status = "FAIL" THEN fs
  ELSE IF status = "SKIP" THEN [fs EXCEPT ![new] = Absent]
  ELSE IF status = "REPLACE" THEN [fs EXCEPT ![targ] = Absent]
  ELSE [fs EXCEPT ![targ] = fs[new], ![new] = Absent]

\* DirsAfter with the dry-run return of lines 278-280 after line 282.
DirsAfterLateReturn(ds, status, dry_run, targ) ==
  IF status = "FAIL" THEN ds ELSE ds \cup {DirName(targ)}

\* The golden image and the temporary output after lines 282-293 for the
\* given status.
FilesAfter(fs, status, dry_run, targ, new) ==
  IF dry_run \/ status = "FAIL" THEN fs
  ELSE IF status = "SKIP" THEN [fs EXCEPT ![new] = Absent]
  ELSE [fs EXCEPT ![targ] = fs[new], ![new] = Absent]

\* Line 282: os.makedirs(dirname, exist_ok=True)
DirsAfter(ds, status, dry_run, targ) ==
  IF dry_run \/ status = "FAIL" THEN ds ELSE ds \cup {DirName(targ)}

\* Lines 288: image_compare(targ_img_file, new_img_file) on the files.
SameImage(fs, targ, new) ==
  /\ fs[targ] # Absent
  /\ fs[new] # Absent
  /\ ImageCompare(targ, new, fs[targ], fs[new], DefaultMaxDiff)

\* Lines 273-294 and completed() (lines 181-196): the outcome is
\* classified, the files are moved, the request is completed and its
\* completion callback runs; process_request returns to the loop.
Classify ==
  /\ pc = "classify"
  /\ LET req    == reqs[Cur]
         targ   == req.image_file
         new    == NewImgFile(targ)
         status == Outcome(osc, test_only, files[targ] # Absent, SameImage(files, targ, new))
         o      == IF status = "FAIL" THEN [osc EXCEPT !.success = FALSE] ELSE osc
         done   == [reqs EXCEPT ![Cur] = Completed(req, status, o)]
     IN /\ files' = FilesAfter(files, status, test_only, targ, new)
        /\ dirs' = DirsAfter(dirs, status, test_only, targ)
        /\ \E c \in CallbackOutcomes(req.completion_cb, done, requests, loopList, aliased) :
             /\ reqs' = c.reqs
             /\ requests' = c.requests
             /\ loopList' = c.loopList
             /\ aliased' = c.aliased
             /\ completions' = [i \in 1..Len(c.reqs) |->
                                  IF i > Len(reqs) THEN 0
                                  ELSE IF i = Cur THEN completions[i] + 1
                                  ELSE completions[i]]
        /\ passDone' = Append(passDone, Cur)
  /\ osc' = NoOsc
  /\ loopIdx' = loopIdx + 1
  /\ pc' = "loop"
  /\ UNCHANGED <<test_only, script_files, passQueue, passResult, faults>>
  /\ call' = NoCall
  /\ UNCHANGED <<parseVars, scope, cmp>>

\* Lines 282-293: makedirs, unlink or rename raises.  step names the call
\* that raises: "makedirs", the first file call, or the rename that follows
\* the unlink of a REPLACE.
FileOpFails ==
  /\ pc = "classify"
  /\ faults < FaultLimit
  /\ ~RenderFailed(osc)
  /\ ~test_only
  /\ LET targ   == reqs[Cur].image_file
         new    == NewImgFile(targ)
         status == Outcome(osc, test_only, files[targ] # Absent, SameImage(files, targ, new))
     IN \E step \in {"makedirs", "first", "rename"} :
          /\ step = "rename" => status = "REPLACE"
          /\ dirs' = IF step = "makedirs" THEN dirs ELSE dirs \cup {DirName(targ)}
          /\ files' = IF step = "rename" THEN [files EXCEPT ![targ] = Absent] ELSE files
  /\ Abort
  /\ UNCHANGED <<reqs, requests, test_only, script_files, completions, passQueue, passDone>>
  /\ call' = NoCall
  /\ UNCHANGED <<parseVars, scope, cmp>>

\* ProcessRequestsReturn with a loop that also stops after a request that
\* was completed FAIL.
ProcessRequestsReturnOnFail ==
  /\ pc = "loop"
  /\ \/ loopIdx > Len(LoopSeq)
     \/ loopIdx > 1 /\ reqs[LoopSeq[loopIdx - 1]].status = "FAIL"
  /\ requests' = <<>>
  /\ pc' = "idle"
  /\ loopList' = <<>>
  /\ loopIdx' = 0
  /\ aliased' = FALSE
  /\ passResult' = "returned"
  /\ UNCHANGED <<reqs, test_only, osc, files, script_files, dirs, completions,
                 passQueue, passDone, faults>>
  /\ call' = NoCall
  /\ UNCHANGED <<parseVars, scope, cmp>>

\* The for loop is exhausted: line 219.
ProcessRequestsReturn ==
  /\ pc = "loop"
  /\ loopIdx > Len(LoopSeq)
  /\ requests' = <<>>
  /\ pc' = "idle"
  /\ loopList' = <<>>
  /\ loopIdx' = 0
  /\ aliased' = FALSE
  /\ passResult' = "returned"
  /\ UNCHANGED <<reqs, test_only, osc, files, script_files, dirs, completions,
                 passQueue, passDone, faults>>
  /\ call' = NoCall
  /\ UNCHANGED <<parseVars, scope, cmp>>

Init == InitParseVars /\ InitLifeVars

Next ==
  \/ NewRequest
  \/ PurgeRequests
  \/ ProcessRequests
  \/ Starting
  \/ WriteScript
  \/ WriteScriptFails
  \/ RunRenderer
  \/ RendererRaises
  \/ Classify
  \/ FileOpFails
  \/ ProcessRequestsReturn

Spec == Init /\ [][Next]_vars

\* The same manager used in the scope "retries".
InitRetry ==
  /\ InitParseVars
  /\ InitManager
  /\ scope = "retries"
  /\ cmp = NoCompare

SpecRetry == InitRetry /\ [][Next]_vars
(***************************************************************************)
(* SpecParse: one construction of an ImageRequest, rule by rule            *)
(***************************************************************************)

InitParse ==
  /\ directive \in Directives
  /\ image_meta = MetaOf(directive)
  /\ script_lines \in ScriptBodies
  /\ stage = "tags"
  /\ vp = ViewportDefaults
  /\ built = NotBuilt
  /\ InitLifeVars

\* Lines 83-100
TagRules ==
  /\ stage = "tags"
  /\ vp' = AnimRule(image_meta, SpinRule(image_meta, DimRule(image_meta, vp)))
  /\ stage' = "vpr"
  /\ UNCHANGED <<directive, image_meta, script_lines, built>>
  /\ UNCHANGED lifeVars

\* Lines 102-105
VprStep ==
  /\ stage = "vpr"
  /\ vp' = VprRule(image_meta, vp)
  /\ stage' = "vpt"
  /\ UNCHANGED <<directive, image_meta, script_lines, built>>
  /\ UNCHANGED lifeVars

\* Lines 106-109
VptStep ==
  /\ stage = "vpt"
  /\ vp' = VptRule(image_meta, vp)
  /\ stage' = "vpd"
  /\ UNCHANGED <<directive, image_meta, script_lines, built>>
  /\ UNCHANGED lifeVars

\* Lines 110-113
VpdStep ==
  /\ stage = "vpd"
  /\ vp' = VpdRule(image_meta, vp)
  /\ stage' = IF vp'.exc = "none" THEN "vpf" ELSE "raised"
  /\ UNCHANGED <<directive, image_meta, script_lines, built>>
  /\ UNCHANGED lifeVars

\* Lines 114-117
VpfStep ==
  /\ stage = "vpf"
  /\ vp' = VpfRule(image_meta, vp)
  /\ stage' = IF vp'.exc = "none" THEN "finish" ELSE "raised"
  /\ UNCHANGED <<directive, image_meta, script_lines, built>>
  /\ UNCHANGED lifeVars

\* Lines 119-161
Finish ==
  /\ stage = "finish"
  /\ built' = BuildRequest(<<"i","m","a","g","e","s","/","a",".","p","n","g">>, script_lines, image_meta, FALSE, FALSE, vp)
  /\ stage' = IF built'.exc = "none" THEN "built" ELSE "raised"
  /\ UNCHANGED <<directive, image_meta, script_lines, vp>>
  /\ UNCHANGED lifeVars

\* Lines 235-266 of process_request for the request built: the arguments
\* the renderer is constructed with, in either mode.
Invoke ==
  /\ stage = "built"
  /\ \E dry_run \in BOOLEAN :
       osc' = [present |-> TRUE, dry_run |-> dry_run, args |-> RunnerArgs(built, dry_run)]
  /\ stage' = "invoked"
  /\ UNCHANGED <<directive, image_meta, script_lines, vp, built>>
  /\ UNCHANGED <<reqs, requests, test_only, pc, loopList, loopIdx, aliased, files,
                 script_files, dirs, completions, passQueue, passDone, passResult, faults,
                 call, scope, cmp>>

NextParse == TagRules \/ VprStep \/ VptStep \/ VpdStep \/ VpfStep \/ Finish \/ Invoke

SpecParse == InitParse /\ [][NextParse]_vars


(***************************************************************************)
(* SpecCompare: one call of image_compare                                  *)
(***************************************************************************)

\* The images compared: those of Images and two-pixel images of two shapes.
CompareImages ==
  Images \cup { Image(<<1, 2>>, <<0, 0>>), Image(<<1, 2>>, <<64, 200>>),
                Image(<<2, 1>>, <<0, 0>>) }

\* The values of max_diff.
Tolerances == {0, 1, 63, 64, 65, 200}

InitCompare ==
  /\ InitParseVars
  /\ InitManager
  /\ scope = "lifecycle"
  /\ cmp \in [state : {"called"}, file1 : ImagePaths, file2 : ImagePaths,
               a : CompareImages, b : CompareImages, max_diff : Tolerances,
               result : {FALSE}]
  /\ cmp.file1 = cmp.file2 => cmp.a = cmp.b

\* image_compare (lines 296-311) runs and returns.
Compare ==
  /\ cmp.state = "called"
  /\ cmp' = [cmp EXCEPT !.state = "returned",
                        !.result = ImageCompare(cmp.file1, cmp.file2, cmp.a, cmp.b, cmp.max_diff)]
  /\ UNCHANGED <<parseVars, scope>>
  /\ UNCHANGED <<reqs, requests, test_only, pc, loopList, loopIdx, aliased, osc, files,
                 script_files, dirs, completions, passQueue, passDone, passResult, faults,
                 call>>

NextCompare == Compare

SpecCompare == InitCompare /\ [][NextCompare]_vars

(***************************************************************************)
(* Properties                                                              *)
(***************************************************************************)

\* The members of a sequence.
Range(s) == {s[i] : i \in 1..Len(s)}

\* The request the running pass completed last.
LastDone == reqs[passDone[Len(passDone)]]

\* process_request has just returned for LastDone.
JustReturned == pc = "loop" /\ passDone # <<>>

\* The step in which process_request classifies, completes and returns.
Returns == pc = "classify" /\ pc' = "loop"

\* The warnings of the renderer's report that are not the benign one.
Surviving(o) == {i \in 1..Len(o.reported) : o.reported[i] # BenignWarning}

\* The decision table of the specification, first matching row, for the
\* golden image targ and the renderer's output new.
DecisionTable(o, dry_run, targ, new) ==
  IF ~o.success \/ Surviving(o) # {} \/ o.errors # <<>> THEN "FAIL"
  ELSE IF dry_run THEN "SKIP"
  ELSE IF files[targ] = Absent THEN "NEW"
  ELSE IF ImageCompare(targ, new, files[targ], files[new], DefaultMaxDiff) THEN "SKIP"
  ELSE "REPLACE"

\* C1: whenever process_request completes a request, its status is the first
\* matching row of the decision table (FAIL on renderer failure or a
\* surviving warning or error, then SKIP in a dry run, then NEW for a missing
\* golden image, then SKIP when image_compare accepts, else REPLACE), and a
\* FAIL has success false.
C1_DecisionTable ==
  [][Returns =>
       /\ reqs'[Cur].status =
            DecisionTable(osc, test_only, reqs[Cur].image_file, NewImgFile(reqs[Cur].image_file))
       /\ reqs'[Cur].status = "FAIL" => ~reqs'[Cur].success]_vars

\* C1 witness: a request completed FAIL on a surviving warning although the
\* image the renderer wrote equals the golden image.
C1_Witness ==
  /\ JustReturned
  /\ LastDone.status = "FAIL"
  /\ ~LastDone.success
  /\ LastDone.warnings # <<>>
  /\ LastDone.errors = <<>>
  /\ files[LastDone.image_file] # Absent
  /\ files[LastDone.image_file] = files[NewImgFile(LastDone.image_file)]

\* C2: during a process_requests(test_only=True) pass no golden image is
\* created, deleted or renamed, no directory is created, and every request
\* the pass completes gets status SKIP or FAIL.
C2_DryRunTouchesNothing ==
  [][(pc # "idle" /\ test_only) =>
       /\ \A t \in Targets : files'[t] = files[t]
       /\ dirs' = dirs
       /\ Returns => reqs'[Cur].status \in {"SKIP", "FAIL"}]_vars

\* C2 witness: a dry run completed a request SKIP whose golden image does
\* not exist, and its directory was not created.
C2_Witness ==
  /\ JustReturned
  /\ test_only
  /\ LastDone.status = "SKIP"
  /\ files[LastDone.image_file] = Absent
  /\ DirName(LastDone.image_file) \notin dirs

\* C3 (as claimed): a request's outcome fields stay unset until it is
\* completed, and completed() runs exactly once for it, also over passes that
\* raise and are followed by further passes.
C3_CompletedExactlyOnce ==
  \A i \in 1..Len(reqs) :
    /\ ~reqs[i].complete =>
         /\ reqs[i].status = "INCOMPLETE"
         /\ ~reqs[i].success
         /\ completions[i] = 0
    /\ reqs[i].complete => completions[i] = 1

\* C4 (as claimed): when process_request has returned, neither the temporary
\* script nor the temporary output image of the request exists.
C4_NoTemporaryLeft ==
  JustReturned =>
    /\ ScriptFile(LastDone.image_file) \notin script_files
    /\ files[NewImgFile(LastDone.image_file)] = Absent

\* C5 (as claimed): a pass processes exactly the requests that were queued
\* when process_requests was called.
C5_PassProcessesSnapshot ==
  /\ passResult \in {"running", "returned"} => Range(passDone) \subseteq Range(passQueue)
  /\ passResult = "returned" => passDone = passQueue

\* C6: while process_request works on a request no golden image changes,
\* except that the step completing it NEW or REPLACE makes its own golden
\* image the image the renderer just wrote; FAIL and SKIP leave it as it was.
C6_GoldenFrame ==
  [][/\ (pc \in {"loop", "write", "render"} /\ pc' # "idle") =>
          \A t \in Targets : files'[t] = files[t]
     /\ Returns =>
          /\ reqs'[Cur].status \in {"FAIL", "SKIP"} =>
               files'[reqs[Cur].image_file] = files[reqs[Cur].image_file]
          /\ reqs'[Cur].status \in {"NEW", "REPLACE"} =>
               /\ osc.out # Absent
               /\ files'[reqs[Cur].image_file] = osc.out
          /\ \A t \in Targets \ {reqs[Cur].image_file} : files'[t] = files[t]]_vars

\* C6 witness: a request was completed REPLACE; its golden image exists and
\* the temporary output has been renamed onto it.
C6_Witness ==
  /\ JustReturned
  /\ LastDone.status = "REPLACE"
  /\ files[LastDone.image_file] # Absent
  /\ files[NewImgFile(LastDone.image_file)] = Absent

\* C7 (as claimed): building a request from metadata without NORENDER never
\* raises, whatever the tags and the script body.
C7_ConstructionTotal ==
  ~Contains(image_meta, <<"N","O","R","E","N","D","E","R">>) => stage # "raised"

\* The tags of the directive that start with the given text, by position.
TagsWith(prefix) == {i \in 1..Len(directive) : StartsWith(directive[i], prefix)}

\* The text of a KEY=value tag after the prefix KEY=.
ValueText(tag, prefix) == SubSeq(tag, Len(prefix) + 1, Len(tag))

SpinTags == { <<"F","l","a","t","S","p","i","n">>, <<"S","p","i","n">>, <<"X","S","p","i","n">>, <<"Y","S","p","i","n">> }

\* The rotation triple the specification gives for each spin tag.
SpinTriple(tag) ==
  IF tag = <<"F","l","a","t","S","p","i","n">> THEN <<IntVal(<<"5","5">>), IntVal(<<"0">>), StrVal(<<"3","6","0","*","$","t">>)>>
  ELSE IF tag = <<"S","p","i","n">> THEN <<StrVal(<<"9","0","-","4","5","*","c","o","s","(","3","6","0","*","$","t",")">>), IntVal(<<"0">>), StrVal(<<"3","6","0","*","$","t">>)>>
  ELSE IF tag = <<"X","S","p","i","n">> THEN <<StrVal(<<"3","6","0","*","$","t">>), IntVal(<<"0">>), IntVal(<<"2","5">>)>>
  ELSE <<IntVal(<<"5","5">>), StrVal(<<"3","6","0","*","$","t">>), IntVal(<<"2","5">>)>>

\* C8 (as claimed): with no VPR override, a directive whose only spin tag is
\* T is built with T's own rotation triple and a dynamic viewport.
C8_SpinSelectsOwnTriple ==
  \A T \in SpinTags :
    (/\ stage = "built"
     /\ \E i \in 1..Len(directive) : directive[i] = T
     /\ \A i \in 1..Len(directive) : directive[i] \in SpinTags => directive[i] = T
     /\ TagsWith(<<"V","P","R">>) = {})
    => /\ vp.vpr = SpinTriple(T)
       /\ built.dynamic_vp

\* The first VPR / VPT tag of the directive has a component that is no number.
FirstIsExpression(prefix) ==
  /\ TagsWith(prefix) # {}
  /\ Contains(directive[Min(TagsWith(prefix))], <<"$">>)

\* Some rule of the parse sets the viewport dynamic for this directive.
SomeRuleSetsDynamic ==
  \/ \E i \in 1..Len(directive) : directive[i] \in SpinTags \cup { <<"A","n","i","m">> }
  \/ FirstIsExpression(<<"V","P","R","=">>)
  \/ FirstIsExpression(<<"V","P","T","=">>)
  \/ TagsWith(<<"V","P","D","=">>) # {}
  \/ TagsWith(<<"V","P","F","=">>) # {}

\* C9: no rule of the parse turns a dynamic viewport back to static, and the
\* built configuration is dynamic (and so has no fixed camera) exactly when
\* some rule set the flag.
C9_DynamicMonotonic ==
  [][/\ vp.dynamic_vp => vp'.dynamic_vp
     /\ stage' = "built" =>
          /\ built'.dynamic_vp <=> SomeRuleSetsDynamic
          /\ built'.dynamic_vp <=> vp'.dynamic_vp
          /\ built'.dynamic_vp <=> built'.camera = NoCamera]_vars

\* C9 witness: a spin tag followed by a fully numeric VPR override was built
\* with the override's rotation and still dynamic.
C9_Witness ==
  /\ stage = "built"
  /\ directive = << <<"S","p","i","n">>, <<"V","P","R","=","[","1",",","2",",","3","]">> >>
  /\ vp.vpr = <<FloatVal(<<"1">>), FloatVal(<<"2">>), FloatVal(<<"3">>)>>
  /\ built.dynamic_vp
  /\ built.camera = NoCamera

\* 1000/n rounded to the nearest integer, a tie to the even one.
RoundedMs(n) ==
  IF 2 * (1000 % n) > n \/ (2 * (1000 % n) = n /\ (1000 \div n) % 2 = 1)
  THEN (1000 \div n) + 1
  ELSE 1000 \div n

\* The value of the first tag with the given prefix.
FirstValue(prefix) == DecInt(ValueText(directive[Min(TagsWith(prefix))], prefix))

\* C10 (as claimed): frame_ms is m with FrameMS=m, otherwise round(1000/n)
\* with FPS=n, otherwise 250.
C10_FrameMsRounded ==
  stage = "built" =>
    built.frame_ms =
      IF TagsWith(<<"F","r","a","m","e","M","S","=">>) # {} THEN FirstValue(<<"F","r","a","m","e","M","S","=">>)
      ELSE IF TagsWith(<<"F","P","S","=">>) # {} THEN RoundedMs(FirstValue(<<"F","P","S","=">>))
      ELSE 250

\* C10 (amended): frame_ms is m with FrameMS=m, otherwise 1000/n truncated to
\* an integer with FPS=n, otherwise 250.
C10_FrameMsTruncated ==
  stage = "built" =>
    built.frame_ms =
      IF TagsWith(<<"F","r","a","m","e","M","S","=">>) # {} THEN FirstValue(<<"F","r","a","m","e","M","S","=">>)
      ELSE IF TagsWith(<<"F","P","S","=">>) # {} THEN 1000 \div FirstValue(<<"F","P","S","=">>)
      ELSE 250

\* C10 witness: FPS=6 alone was built with 166 ms, where rounding gives 167.
C10_Witness ==
  /\ stage = "built"
  /\ directive = << <<"F","P","S","=","6">> >>
  /\ built.frame_ms = 166

\* The file and renderer state, and the queue.
Effects == <<reqs, requests, completions, osc, files, script_files, dirs>>

\* C11: a new_request call whose metadata contains NORENDER raises and
\* leaves the queue, the requests, the files and the renderer as they were;
\* no request made from such metadata exists, so none is ever rendered.
C11_NoRenderRejected ==
  [][/\ (call'.made /\ Contains(call'.image_meta, <<"N","O","R","E","N","D","E","R">>)) =>
          (call'.raised /\ UNCHANGED Effects)
     /\ \A i \in 1..Len(reqs') : ~Contains(reqs'[i].image_meta, <<"N","O","R","E","N","D","E","R">>)
     /\ osc'.present => ~Contains(reqs'[Cur'].image_meta, <<"N","O","R","E","N","D","E","R">>)]_vars

\* C11 witness: a new_request call with NORENDER has just raised while a
\* request made before it is still the only one queued.
C11_Witness ==
  /\ call.made
  /\ Contains(call.image_meta, <<"N","O","R","E","N","D","E","R">>)
  /\ call.raised
  /\ Len(reqs) = 1
  /\ requests = <<1>>

Terminal == {"NEW", "SKIP", "REPLACE", "FAIL"}

\* process_requests returns normally in this step.
PassReturns == pc = "loop" /\ pc' = "idle"

\* C12: a failing renderer result completes the request FAIL and the loop
\* goes on to the next request without an exception; when process_requests
\* returns, every request that was queued at the call is complete with a
\* terminal status and the queue is empty.
C12_FailureRecorded ==
  [][/\ (Returns /\ RenderFailed(osc)) =>
          /\ reqs'[Cur].status = "FAIL"
          /\ loopIdx' = loopIdx + 1
          /\ faults' = faults
          /\ passResult' = "running"
     /\ PassReturns =>
          /\ requests' = <<>>
          /\ \A i \in Range(passQueue) :
               reqs'[i].complete /\ reqs'[i].status \in Terminal]_vars

\* C12 witness: a pass over two requests has returned; the first was
\* completed FAIL, the second after it with another status.
C12_Witness ==
  /\ pc = "idle"
  /\ passResult = "returned"
  /\ passQueue = <<1, 2>>
  /\ passDone = <<1, 2>>
  /\ reqs[1].status = "FAIL"
  /\ reqs[2].status \in {"NEW", "SKIP", "REPLACE"}
  /\ requests = <<>>

\* C13: a pass completes requests one at a time in the order new_request
\* created them: while process_request works on a request, exactly the
\* requests before it in the list have been completed by the pass, and the
\* completions of the pass are in creation order.
C13_SequentialInOrder ==
  /\ \A i, j \in 1..Len(passDone) : i < j => passDone[i] < passDone[j]
  /\ pc \in {"loop", "write", "render", "classify"} =>
       passDone = SubSeq(LoopSeq, 1, loopIdx - 1)
  /\ pc \in {"write", "render", "classify"} => Cur \notin Range(passDone)

\* C13 witness: the second request is about to be rendered after the first
\* request, and only it, was completed.
C13_Witness ==
  /\ pc = "render"
  /\ Cur = 2
  /\ passDone = <<1>>
  /\ completions = <<1, 0>>
  /\ reqs[1].complete
  /\ ~reqs[2].complete

\* The renderer's report is free of failure, surviving warnings and errors.
CleanReport(o) == o.success /\ Surviving(o) = {} /\ o.errors = <<>>

\* The golden image g of target targ passes for the rendered image o: the
\* same bytes for a .gif, else the same shape and no pixel further than the
\* default tolerance.
Accepts(targ, g, o) ==
  IF SubSeq(targ, Len(targ) - 3, Len(targ)) = <<".","g","i","f">> THEN g = o
  ELSE /\ g.shape = o.shape
       /\ \A i \in 1..Len(g.px) : g.px[i] - o.px[i] <= 64 /\ o.px[i] - g.px[i] <= 64

\* C14: in a pass that is no dry run, a request with a clean renderer report
\* is completed NEW when its golden image is absent, and SKIP with the golden
\* image untouched when the golden image passes for the rendered image; and
\* after every such completion the golden image exists and passes for the
\* rendered image, so that rendering the same image again gives SKIP.
C14_RegenerationIdempotent ==
  [][(Returns /\ ~test_only /\ CleanReport(osc)) =>
       /\ files[reqs[Cur].image_file] = Absent =>
            /\ reqs'[Cur].status = "NEW"
            /\ files'[reqs[Cur].image_file] = osc.out
       /\ (/\ files[reqs[Cur].image_file] # Absent
           /\ Accepts(reqs[Cur].image_file, files[reqs[Cur].image_file], osc.out)) =>
            /\ reqs'[Cur].status = "SKIP"
            /\ files'[reqs[Cur].image_file] = files[reqs[Cur].image_file]
       /\ files'[reqs[Cur].image_file] # Absent
       /\ Accepts(reqs[Cur].image_file, files'[reqs[Cur].image_file], osc.out)]_vars

\* C14 witness: two requests for the same golden image were processed in one
\* pass that is no dry run: the first was completed NEW, the second SKIP.
C14_Witness ==
  /\ JustReturned
  /\ ~test_only
  /\ passDone = <<1, 2>>
  /\ reqs[1].image_file = reqs[2].image_file
  /\ reqs[1].status = "NEW"
  /\ reqs[2].status = "SKIP"
  /\ files[reqs[2].image_file] # Absent

\* The script body as given, each line without its force-under prefix.
Body ==
  [i \in 1..Len(script_lines) |->
     IF Len(script_lines[i]) >= 2 /\ SubSeq(script_lines[i], 1, 2) = <<"-","-">>
     THEN SubSeq(script_lines[i], 3, Len(script_lines[i]))
     ELSE script_lines[i]]

\* The viewport variables the declaration lines set, in order.
DeclaredVariables == << <<"$","v","p","t"," ","="," ">>, <<"$","v","p","r"," ","="," ">>, <<"$","v","p","d"," ","="," ">>, <<"$","v","p","f"," ","="," ">> >>

\* C15: a built request has either a camera or a dynamic viewport, never
\* both and never neither: dynamic means no camera and the four declarations
\* of $vpt, $vpr, $vpd, $vpf in front of the script body; static means the
\* seven-number camera and the script body alone.  FlatSpin without a Frames
\* tag gives 36 frames.
C15_CameraOrDynamic ==
  stage = "built" =>
    /\ built.dynamic_vp =>
         /\ built.camera = NoCamera
         /\ Len(built.script_lines) = 4 + Len(script_lines)
         /\ \A k \in 1..4 : StartsWith(built.script_lines[k], DeclaredVariables[k])
         /\ SubSeq(built.script_lines, 5, Len(built.script_lines)) = Body
    /\ ~built.dynamic_vp =>
         /\ built.camera = <<vp.vpt[1], vp.vpt[2], vp.vpt[3],
                             vp.vpr[1], vp.vpr[2], vp.vpr[3], vp.vpd>>
         /\ built.script_lines = Body
    /\ (TagsWith(<<"F","l","a","t","S","p","i","n">>) # {} /\ TagsWith(<<"F","r","a","m","e","s","=">>) = {}) =>
         /\ built.animation_frames = 36
         /\ built.dynamic_vp

\* C15 witness: FlatSpin alone was built on a script with a force-under
\* line: 36 frames, no camera, four declarations and then the body.
C15_Witness ==
  /\ stage = "built"
  /\ directive = << <<"F","l","a","t","S","p","i","n">> >>
  /\ Len(script_lines) = 2
  /\ built.animation_frames = 36
  /\ built.camera = NoCamera
  /\ Len(built.script_lines) = 6
  /\ built.script_lines[1] = <<"$","v","p","t"," ","="," ","[","0",","," ","0",","," ","0","]",";">>
  /\ built.script_lines[2] = <<"$","v","p","r"," ","="," ","[","5","5",","," ","0",","," ","3","6","0","*","$","t","]",";">>
  /\ built.script_lines[5] = <<"c","u","b","e","(","1","0",")",";">>

\* An exception leaves process_requests in this step.
PassRaises == pc \in {"write", "render", "classify"} /\ pc' = "idle"

\* C16 (as claimed): when an I/O fault in the processing of a request ends
\* the pass, no request after it in the list has been started, rendered or
\* completed by the pass, the files of the step are those of the failing
\* request alone, and every request after it has status INCOMPLETE.
C16_FaultAbortsBatch ==
  [][PassRaises =>
       /\ passResult' = "raised"
       /\ reqs' = reqs
       /\ completions' = completions
       /\ \A k \in (loopIdx + 1)..Len(LoopSeq) :
            /\ LoopSeq[k] \notin Range(passDone)
            /\ reqs'[LoopSeq[k]].status = "INCOMPLETE"
            /\ ~reqs'[LoopSeq[k]].complete]_vars

\* The path names a .gif file.
IsGif(path) == Len(path) >= 4 /\ SubSeq(path, Len(path) - 3, Len(path)) = <<".","g","i","f">>

\* The reference predicate of image_compare.
Reference(file1, file2, a, b, tol) ==
  IF IsGif(file1) /\ IsGif(file2) THEN a = b
  ELSE /\ a.shape = b.shape
       /\ \A i \in 1..Len(a.px) : a.px[i] - b.px[i] <= tol /\ b.px[i] - a.px[i] <= tol

\* C17: image_compare returns what the reference predicate gives: equal
\* bytes for two .gif paths, otherwise equal shapes and no pixel further
\* apart than the tolerance; a file compared to itself is accepted.
C17_CompareMatchesReference ==
  cmp.state = "returned" =>
    /\ cmp.result = Reference(cmp.file1, cmp.file2, cmp.a, cmp.b, cmp.max_diff)
    /\ cmp.a.shape # cmp.b.shape /\ ~(IsGif(cmp.file1) /\ IsGif(cmp.file2)) => ~cmp.result
    /\ cmp.file1 = cmp.file2 => cmp.result

\* C17 witness: two .png images one pixel value 64 apart were accepted with
\* tolerance 64.
C17_Witness ==
  /\ cmp.state = "returned"
  /\ ~IsGif(cmp.file1)
  /\ cmp.a = Image(<<1, 1>>, <<0>>)
  /\ cmp.b = Image(<<1, 1>>, <<64>>)
  /\ cmp.max_diff = 64
  /\ cmp.result

\* The temporary script of the request process_request is working on.
CurScript == ScriptFile(reqs[Cur].image_file)

\* C18: the renderer step starts with the temporary script written and,
\* however it ends, leaves it removed; the script is absent throughout the
\* classification, the golden-image operations and the completion.
C18_ScriptRemovedFirst ==
  [][/\ pc = "render" => (CurScript \in script_files /\ CurScript \notin script_files')
     /\ pc = "classify" => (CurScript \notin script_files /\ CurScript \notin script_files')]_vars

\* C18 witness: the renderer has reported a failure that is still to be
\* classified, and the script is gone.
C18_Witness ==
  /\ pc = "classify"
  /\ ~osc.success
  /\ CurScript \notin script_files
  /\ ~reqs[Cur].complete

\* Some line of the built request's script names a viewport variable.
MentionsViewport ==
  \E i \in 1..Len(built.script_lines) :
    \E k \in 1..Len(built.script_lines[i]) - 2 :
      SubSeq(built.script_lines[i], k, k + 2) = <<"$","v","p">>

\* C19: the renderer gets auto_center, view_all and hard_warnings all true
\* when no line of the request's script names a viewport variable, else all
\* false; a request with a dynamic viewport is so rendered with no camera,
\* no auto-fit and no hard warnings.
C19_AutoFitUnlessViewportSet ==
  stage = "invoked" =>
    /\ osc.args.auto_center = ~MentionsViewport
    /\ osc.args.view_all = ~MentionsViewport
    /\ osc.args.hard_warnings = ~MentionsViewport
    /\ built.dynamic_vp =>
         /\ osc.args.camera = NoCamera
         /\ ~osc.args.auto_center
         /\ ~osc.args.view_all
         /\ ~osc.args.hard_warnings

\* C19 witness: a dynamic request whose own script sets no viewport variable
\* was handed to the renderer without auto-fit.
C19_Witness ==
  /\ stage = "invoked"
  /\ directive = << <<"F","l","a","t","S","p","i","n">> >>
  /\ script_lines = << <<"c","u","b","e","(","1","0",")",";">> >>
  /\ osc.args.camera = NoCamera
  /\ ~osc.args.view_all
  /\ ~osc.args.hard_warnings

\* C20 (as claimed): a request leaves the queue only by a purge_requests
\* call or by the reset that ends a pass which has processed it: the reset
\* discards no request the pass did not complete.
C20_NothingDropped ==
  [][/\ PassReturns => Range(requests) \subseteq Range(passDone)
     /\ \A i \in Range(requests) \ Range(requests') :
          \/ PassReturns /\ i \in Range(passDone)
          \/ requests' = <<>> /\ ~PassReturns]_vars
====
